---- MODULE Spec2Model ----
(***************************************************************************)
(* Model of the Discord stock alert bot (src/bot.py): the anchor           *)
(* calculation, the time-window gate and the run pipeline of main(), with  *)
(* the ledger persisted in the Gist shared by successive runs.             *)
(*                                                                         *)
(* Python floats are IEEE-754 binary64.  They are modelled exactly: a      *)
(* float is sign * mant * 2^exp with mant an arbitrary-precision natural,  *)
(* and every arithmetic operation rounds its exact result to 53            *)
(* significant bits, ties to even.  (The exponents met here stay far from  *)
(* the overflow and subnormal ranges.)                                     *)
(***************************************************************************)
EXTENDS Integers, Sequences, FiniteSets, TLC

(***************************************************************************)
(* Arbitrary-precision naturals: little-endian sequences of limbs in       *)
(* 0..Base-1 without leading zero limbs; <<>> is zero.  The arithmetic is  *)
(* written as functions, whose arguments are evaluated once.               *)
(***************************************************************************)
Base == 2^15
Big == Seq(Nat)

BNorm[a \in Big] ==
  IF a = <<>> THEN <<>>
  ELSE IF a[Len(a)] = 0 THEN BNorm[SubSeq(a, 1, Len(a) - 1)]
  ELSE a

BFromInt[n \in Nat] ==
  IF n = 0 THEN <<>> ELSE <<n % Base>> \o BFromInt[n \div Base]

\* a + b + c, for a carry c
BAddC[a \in Big, b \in Big, c \in Nat] ==
  IF a = <<>> /\ b = <<>> THEN (IF c = 0 THEN <<>> ELSE <<c>>)
  ELSE IF a = <<>> THEN <<(b[1] + c) % Base>> \o BAddC[<<>>, Tail(b), (b[1] + c) \div Base]
  ELSE IF b = <<>> THEN <<(a[1] + c) % Base>> \o BAddC[Tail(a), <<>>, (a[1] + c) \div Base]
  ELSE <<(a[1] + b[1] + c) % Base>> \o BAddC[Tail(a), Tail(b), (a[1] + b[1] + c) \div Base]

BAdd[a \in Big, b \in Big] == BAddC[a, b, 0]

\* a - b - c limb by limb, for a borrow c
BSubC[a \in Big, b \in Big, c \in Nat] ==
  IF a = <<>> THEN <<>>
  ELSE IF b = <<>>
  THEN <<(a[1] - c) % Base>> \o BSubC[Tail(a), <<>>, IF a[1] - c < 0 THEN 1 ELSE 0]
  ELSE <<(a[1] - b[1] - c) % Base>>
       \o BSubC[Tail(a), Tail(b), IF a[1] - b[1] - c < 0 THEN 1 ELSE 0]

\* a - b, for a >= b
BSub[a \in Big, b \in Big] == BNorm[BSubC[a, b, 0]]

BCmpAt[a \in Big, b \in Big, i \in Nat] ==
  IF i = 0 THEN 0
  ELSE IF a[i] < b[i] THEN -1
  ELSE IF a[i] > b[i] THEN 1
  ELSE BCmpAt[a, b, i - 1]

\* -1, 0 or 1 as a < b, a = b, a > b
BCmp[a \in Big, b \in Big] ==
  IF Len(a) < Len(b) THEN -1
  ELSE IF Len(a) > Len(b) THEN 1
  ELSE BCmpAt[a, b, Len(a)]

BMulSmallC[a \in Big, k \in Nat, c \in Nat] ==
  IF a = <<>> THEN (IF c = 0 THEN <<>> ELSE <<c>>)
  ELSE <<(a[1] * k + c) % Base>> \o BMulSmallC[Tail(a), k, (a[1] * k + c) \div Base]

\* a * k, for 0 <= k < Base
BMulSmall[a \in Big, k \in Nat] == IF k = 0 THEN <<>> ELSE BMulSmallC[a, k, 0]

\* a * Base
BShiftLimb[a \in Big] == IF a = <<>> THEN <<>> ELSE <<0>> \o a

BMul[a \in Big, b \in Big] ==
  IF a = <<>> \/ b = <<>> THEN <<>>
  ELSE BAdd[BMulSmall[a, b[1]], BShiftLimb[BMul[a, Tail(b)]]]

\* a * 2^n
BShl[a \in Big, n \in Nat] ==
  IF a = <<>> THEN <<>>
  ELSE IF n >= 15 THEN <<0>> \o BShl[a, n - 15]
  ELSE BMulSmall[a, 2^n]

\* floor(a / 2^s), for s < 15
BShrBits[a \in Big, s \in Nat] ==
  BNorm[[i \in 1..Len(a) |->
           (a[i] \div 2^s)
           + (IF i < Len(a) THEN (a[i + 1] % 2^s) * 2^(15 - s) ELSE 0)]]

\* floor(a / 2^n)
BShr[a \in Big, n \in Nat] ==
  IF n \div 15 >= Len(a) THEN <<>>
  ELSE BShrBits[SubSeq(a, (n \div 15) + 1, Len(a)), n % 15]

IntBitLen[n \in Nat] == IF n = 0 THEN 0 ELSE 1 + IntBitLen[n \div 2]

\* number of significant bits of a
BBitLen[a \in Big] == IF a = <<>> THEN 0 ELSE 15 * (Len(a) - 1) + IntBitLen[a[Len(a)]]

BIsOdd[a \in Big] == a # <<>> /\ a[1] % 2 = 1

\* one step of restoring division: r already holds 2 * r + bit, q holds 2 * q
DivStep[q \in Big, r \in Big, d \in Big] ==
  IF BCmp[r, d] >= 0 THEN <<BAdd[q, <<1>>], BSub[r, d]>> ELSE <<q, r>>

\* restoring division over bits i..0 of one limb, from <<quotient, remainder>>
DivBits[qr \in Seq(Big), limb \in Nat, i \in Int, d \in Big] ==
  IF i < 0 THEN qr
  ELSE DivBits[DivStep[BAdd[qr[1], qr[1]],
                       BAdd[BAdd[qr[2], qr[2]], BFromInt[(limb \div 2^i) % 2]],
                       d],
               limb, i - 1, d]

DivLimbs[n \in Big, i \in Nat, qr \in Seq(Big), d \in Big] ==
  IF i = 0 THEN qr
  ELSE DivLimbs[n, i - 1, DivBits[qr, n[i], 14, d], d]

\* <<floor(n / d), n mod d>>, for d > 0
BDivMod[n \in Big, d \in Big] == DivLimbs[n, Len(n), <<<<>>, <<>>>>, d]

BPow10[k \in Nat] == IF k = 0 THEN <<1>> ELSE BMulSmall[BPow10[k - 1], 10]

\* floor(a), for 0 <= a < 2^31, as an integer
BToInt[a \in Big] == IF a = <<>> THEN 0 ELSE a[1] + Base * BToInt[Tail(a)]

(***************************************************************************)
(* binary64 values: [sign |-> 1 or -1, mant |-> natural, exp |-> integer], *)
(* canonical when mant is odd, or zero with sign 1 and exp 0.              *)
(***************************************************************************)
Float == [sign : {-1, 1}, mant : Big, exp : Int]
Sign == {-1, 1}

FZero == [sign |-> 1, mant |-> <<>>, exp |-> 0]

FCanon[sg \in Sign, m \in Big, e \in Int] ==
  IF m = <<>> THEN FZero
  ELSE IF m[1] = 0 THEN FCanon[sg, Tail(m), e + 15]
  ELSE IF m[1] % 2 = 0 THEN FCanon[sg, BShr[m, 1], e + 1]
  ELSE [sign |-> sg, mant |-> m, exp |-> e]

\* round-half-even of quotient q with remainder r of a division by den
RoundHalfEven[q \in Big, r \in Big, den \in Big] ==
  IF BCmp[BAdd[r, r], den] > 0 \/ (BCmp[BAdd[r, r], den] = 0 /\ BIsOdd[q])
  THEN BAdd[q, <<1>>] ELSE q

\* n / 2^t rounded, for the quotient q = floor(n / 2^t)
RoundShift[sg \in Sign, n \in Big, e \in Int, t \in Nat, q \in Big] ==
  FCanon[sg, RoundHalfEven[q, BSub[n, BShl[q, t]], BShl[<<1>>, t]], e + t]

\* n / d rounded, for qr = <<floor(n / d), n mod d>>
RoundQuot[sg \in Sign, qr \in Seq(Big), d \in Big, e \in Int] ==
  FCanon[sg, RoundHalfEven[qr[1], qr[2], d], e]

\* n * 2^s / d rounded to 53 bits, where s gives a quotient of 53 or 54 bits
RoundDiv[sg \in Sign, n \in Big, d \in Big, e \in Int, s \in Int, first \in Seq(Big)] ==
  IF BBitLen[first[1]] <= 53 THEN RoundQuot[sg, first, d, e - s]
  ELSE RoundQuot[sg, BDivMod[n, BAdd[d, d]], BAdd[d, d], e - s + 1]

\* the binary64 nearest to sg * (n / d) * 2^e, ties to even (n >= 0, d > 0)
FRound[sg \in Sign, n \in Big, d \in Big, e \in Int] ==
  IF n = <<>> THEN FZero
  ELSE IF d = <<1>> THEN
    (IF BBitLen[n] <= 53 THEN FCanon[sg, n, e]
     ELSE RoundShift[sg, n, e, BBitLen[n] - 53, BShr[n, BBitLen[n] - 53]])
  ELSE IF 53 - (BBitLen[n] - BBitLen[d]) >= 0 THEN
    RoundDiv[sg, BShl[n, 53 - (BBitLen[n] - BBitLen[d])], d, e,
             53 - (BBitLen[n] - BBitLen[d]),
             BDivMod[BShl[n, 53 - (BBitLen[n] - BBitLen[d])], d]]
  ELSE
    RoundDiv[sg, n, BShl[d, (BBitLen[n] - BBitLen[d]) - 53], e,
             53 - (BBitLen[n] - BBitLen[d]),
             BDivMod[n, BShl[d, (BBitLen[n] - BBitLen[d]) - 53]]]

\* float(n): an int converted to float (exact below 2^53)
FromInt[n \in Int] ==
  IF n < 0 THEN FCanon[-1, BFromInt[0 - n], 0] ELSE FCanon[1, BFromInt[n], 0]

\* float("n e-k"): the decimal n * 10^-k parsed as a float (correctly rounded)
FromDec[n \in Int, k \in Nat] ==
  IF n < 0 THEN FRound[-1, BFromInt[0 - n], BPow10[k], 0]
  ELSE FRound[1, BFromInt[n], BPow10[k], 0]

FNeg[a \in Float] == IF a.mant = <<>> THEN a ELSE [a EXCEPT !.sign = 0 - a.sign]

\* sa * x + sb * y, scaled by 2^e
AddAligned[sa \in Sign, x \in Big, sb \in Sign, y \in Big, e \in Int] ==
  IF sa = sb THEN FRound[sa, BAdd[x, y], <<1>>, e]
  ELSE IF BCmp[x, y] >= 0 THEN FRound[sa, BSub[x, y], <<1>>, e]
  ELSE FRound[sb, BSub[y, x], <<1>>, e]

MinInt[a \in Int, b \in Int] == IF a < b THEN a ELSE b

\* a + b
FAdd[a \in Float, b \in Float] ==
  AddAligned[a.sign, BShl[a.mant, a.exp - MinInt[a.exp, b.exp]],
             b.sign, BShl[b.mant, b.exp - MinInt[a.exp, b.exp]],
             MinInt[a.exp, b.exp]]

\* a - b
FSub[a \in Float, b \in Float] == FAdd[a, FNeg[b]]

\* a * b
FMul[a \in Float, b \in Float] ==
  FRound[a.sign * b.sign, BMul[a.mant, b.mant], <<1>>, a.exp + b.exp]

\* a / b, for b # 0
FDiv[a \in Float, b \in Float] ==
  FRound[a.sign * b.sign, a.mant, b.mant, a.exp - b.exp]

\* -1, 0 or 1 as a < b, a = b, a > b
FCmp[a \in Float, b \in Float] ==
  IF a.sign # b.sign THEN (IF a.sign < b.sign THEN -1 ELSE 1)
  ELSE a.sign * BCmp[BShl[a.mant, a.exp - MinInt[a.exp, b.exp]],
                     BShl[b.mant, b.exp - MinInt[a.exp, b.exp]]]

FLt(a, b) == FCmp[a, b] < 0
FGt(a, b) == FCmp[a, b] > 0

\* |a| * 10^d as <<integer part, remainder, denominator>> of the exact value
FixedParts[num \in Big, e \in Int] ==
  IF e >= 0 THEN <<BShl[num, e], <<>>, <<1>>>>
  ELSE <<BShr[num, 0 - e], BSub[num, BShl[BShr[num, 0 - e], 0 - e]], BShl[<<1>>, 0 - e]>>

FixedRound[sg \in Sign, parts \in Seq(Big)] ==
  sg * BToInt[RoundHalfEven[parts[1], parts[2], parts[3]]]

\* the digits of f"{a:.<d>f}" read as an integer: a * 10^d rounded half-even
\* on the exact binary value, with the sign of a
FFixed[a \in Float, d \in Nat] ==
  FixedRound[a.sign, FixedParts[BMul[a.mant, BPow10[d]], a.exp]]

(***************************************************************************)
(* Optional values (Python None): <<>> is None, <<v>> is the value v.      *)
(***************************************************************************)
None == <<>>
Some(v) == <<v>>
IsNone(o) == o = <<>>
Val(o) == o[1]

(***************************************************************************)
(* Configuration (bot.py lines 30-46).                                     *)
(***************************************************************************)
RequiredVars ==
  {"TWELVE_DATA_API_KEY", "FMP_API_KEY", "DISCORD_BOT_TOKEN",
   "DISCORD_CHANNEL_ID", "GIST_ID", "GH_PAT"}

\* float("90"), the default of ALERT_THRESHOLD_PCT
ALERT_THRESHOLD_PCT == FromInt[90]

\* the default of HAIRCUT_RATE, float("0.125"), and the full haircut 1.0
DefaultHaircut == FromDec[125, 3]
HaircutRates == {DefaultHaircut, FromInt[1]}

MARKET_OPEN_HOUR == 10
MARKET_CLOSE_HOUR == 15

(***************************************************************************)
(* calculate_anchor (bot.py lines 325-367).                                *)
(***************************************************************************)
\* insertion of v into the ascending sequence s, after its equals
Insert[v \in Float, s \in Seq(Float)] ==
  IF s = <<>> THEN <<v>>
  ELSE IF FLt(v, Head(s)) THEN <<v>> \o s
  ELSE <<Head(s)>> \o Insert[v, Tail(s)]

\* sorted[targets]: ascending
sorted[s \in Seq(Float)] ==
  IF s = <<>> THEN <<>> ELSE Insert[s[Len(s)], sorted[SubSeq(s, 1, Len(s) - 1)]]

\* sum[trimmed]: left to right from 0
sum[xs \in Seq(Float)] ==
  IF xs = <<>> THEN FZero ELSE FAdd[sum[SubSeq(xs, 1, Len(xs) - 1)], xs[Len(xs)]]

\* a variant that drops the two smallest
DropFirstTwo(s) == SubSeq(s, 3, Len(s))

\* sorted_targets[1:-1]
DropEnds(s) == SubSeq(s, 2, Len(s) - 1)

calculate_anchor(targets, consensus_fallback, haircut_rate) ==
  IF Len(targets) >= 3 THEN
    LET sorted_targets == sorted[targets]
        trimmed        == DropEnds(sorted_targets)
        trimmed_mean   == FDiv[sum[trimmed], FromInt[Len(trimmed)]]
        anchor         == FMul[trimmed_mean, FSub[FromInt[1], haircut_rate]]
    IN  [value |-> anchor, method |-> "trimmed"]
  ELSE IF ~IsNone(consensus_fallback) THEN
    [value |-> FMul[Val(consensus_fallback), FSub[FromInt[1], haircut_rate]],
     method |-> "fallback"]
  ELSE [value |-> FZero, method |-> "none"]

(***************************************************************************)
(* check_time_window (bot.py lines 370-392), on a reading of the Pacific   *)
(* clock: weekday 0 (Monday) .. 6 (Sunday), hour 0..23.                    *)
(***************************************************************************)
Weekdays == 0..6
\* the hours around both ends of the window, and the ends of the day
Hours == {0, 9, 10, 14, 15, 23}
ClockReadings == [weekday : Weekdays, hour : Hours]

\* a variant whose window includes the closing hour
check_time_window_closed(pt_now) ==
  IF pt_now.weekday > 4 THEN FALSE
  ELSE MARKET_OPEN_HOUR <= pt_now.hour /\ pt_now.hour <= MARKET_CLOSE_HOUR

check_time_window(pt_now) ==
  IF pt_now.weekday > 4 THEN FALSE
  ELSE MARKET_OPEN_HOUR <= pt_now.hour /\ pt_now.hour < MARKET_CLOSE_HOUR

(***************************************************************************)
(* The ledger: a Python dict from date strings to lists of symbols, as the *)
(* set of its keys and the list held under each key.                       *)
(***************************************************************************)
Symbols == {"AAPL", "MSFT"}
Yesterday == "2026-02-01"
Today == "2026-02-02"
Dates == {Yesterday, Today}

EmptyDict == [keys |-> {}, at |-> [d \in Dates |-> <<>>]]

\* state.get(k, [])
DictGet(state, k) == IF k \in state.keys THEN state.at[k] ELSE <<>>

\* state[k] = v
DictSet(state, k, v) == [keys |-> state.keys \cup {k}, at |-> [state.at EXCEPT ![k] = v]]

SeqToSet(s) == {s[i] : i \in 1..Len(s)}

\* main, line 511: the symbols for which "symbol in alerted_today" is true
alerted(state, today_str) == SeqToSet(DictGet(state, today_str))

\* the sequences over S of length at most n
BSeq(S, n) == UNION {[1..k -> S] : k \in 0..n}

\* GistStateManager.get_state: the Gist's content, or {} on any failure
get_state(ok, content) == IF ok THEN content ELSE EmptyDict

(***************************************************************************)
(* StockDataFetcher.get_market_movers (bot.py lines 154-203).              *)
(***************************************************************************)
MaxMovers == 2
MoversLimit == 50

\* the fallback list (51 symbols in the source), cut to its first two
get_active_stocks_list == <<"AAPL", "MSFT">>

MoverResponses ==
  {[kind |-> "exception", movers |-> <<>>], [kind |-> "error", movers |-> <<>>]}
  \cup {[kind |-> "data", movers |-> m] : m \in BSeq(Symbols, MaxMovers)}

\* symbols[:n]
Take(s, n) == SubSeq(s, 1, IF Len(s) < n THEN Len(s) ELSE n)

get_market_movers(resp) ==
  IF resp.kind \in {"exception", "error"} THEN get_active_stocks_list
  ELSE IF resp.movers # <<>> THEN Take(resp.movers, MoversLimit)
  ELSE get_active_stocks_list

(***************************************************************************)
(* StockDataFetcher.get_quote (bot.py lines 205-248).  A raw field of the  *)
(* response is missing, an unparsable string, or a decimal n * 10^-k.      *)
(***************************************************************************)
Missing == [t |-> "missing", n |-> 0, k |-> 0]
Bad == [t |-> "bad", n |-> 0, k |-> 0]
Dec(n, k) == [t |-> "num", n |-> n, k |-> k]

RawPrevs == {Missing, Bad, Dec(0, 2), Dec(-100, 2), Dec(100, 2), Dec(1000, 2)}
RawLasts == {Missing, Dec(189, 2), Dec(190, 2), Dec(1900, 2)}

QuoteResponses ==
  {[kind |-> "exception", previous_close |-> Missing, close |-> Missing]}
  \cup {[kind |-> "data", previous_close |-> pc, close |-> lp] :
          pc \in RawPrevs, lp \in RawLasts}

\* float(x) guarded by "is not None" and try/except (lines 228-238)
to_float(raw) == IF raw.t = "num" THEN Some(FromDec[raw.n, raw.k]) ELSE None

\* Python truth of an optional float: not None and not 0.0
Truthy(o) == ~IsNone(o) /\ Val(o) # FZero

\* a variant without the test previous_close > 0
get_quote_unchecked(resp) ==
  IF resp.kind = "exception" THEN None
  ELSE LET previous_close == to_float(resp.previous_close)
           last_price     == to_float(resp.close)
       IN  IF Truthy(previous_close) /\ Truthy(last_price)
           THEN Some([previous_close |-> Val(previous_close),
                      last_price |-> Val(last_price)])
           ELSE None

get_quote(resp) ==
  IF resp.kind = "exception" THEN None
  ELSE LET previous_close == to_float(resp.previous_close)
           last_price     == to_float(resp.close)
       IN  IF Truthy(previous_close) /\ Truthy(last_price)
              /\ FGt(Val(previous_close), FZero)
           THEN Some([previous_close |-> Val(previous_close),
                      last_price |-> Val(last_price)])
           ELSE None

\* ((last_price - previous_close) / previous_close) * 100   (line 543)
pct_change(previous_close, last_price) ==
  FMul[FDiv[FSub[last_price, previous_close], previous_close], FromInt[100]]

\* pct_change < ALERT_THRESHOLD_PCT   (line 546)
below_threshold(pct) == FLt(pct, ALERT_THRESHOLD_PCT)

(***************************************************************************)
(* AnalystTargetFetcher: the parsed results of the two lookups.            *)
(***************************************************************************)
TargetLists ==
  {<<>>, <<FromInt[20], FromInt[10], FromInt[15], FromInt[12], FromInt[18]>>}
ConsensusResults == {None, Some(FromInt[15])}

(***************************************************************************)
(* One iteration of the loop of main for a symbol not alerted today        *)
(* (bot.py lines 533-570), as a function of what the collaborators answer. *)
(* The result holds quote_data and, when the symbol qualifies, the entry   *)
(* appended to qualifying_symbols without its "symbol" field.              *)
(***************************************************************************)
Quote == [previous_close : Float, last_price : Float]
Anchor == [value : Float, method : {"trimmed", "fallback", "none"}]
SymbolData == [pct_change : Float, last_price : Float, previous_close : Float,
               anchor : Float, target_count : Nat,
               anchor_type : {"trimmed", "fallback", "none"}]

\* lines 561-569
symbol_data[quote_data \in Quote, pct \in Float, target_count \in Nat, anchor \in Anchor] ==
  [pct_change     |-> pct,
   last_price     |-> quote_data.last_price,
   previous_close |-> quote_data.previous_close,
   anchor         |-> anchor.value,
   target_count   |-> target_count,
   anchor_type    |-> anchor.method]

\* lines 546-569: skipped below the threshold; the consensus is looked up
\* only when fewer than 3 individual targets came back
qualify[quote_data \in Quote, pct \in Float, individual_targets \in Seq(Float), consensus \in Seq(Float), haircut_rate \in Float] ==
  IF below_threshold(pct) THEN None
  ELSE Some(symbol_data[quote_data, pct, Len(individual_targets),
                        calculate_anchor(individual_targets,
                                         IF Len(individual_targets) < 3
                                         THEN consensus ELSE None,
                                         haircut_rate)])

\* lines 533-569
process_quote[quote_data \in Seq(Quote), individual_targets \in Seq(Float), consensus \in Seq(Float), haircut_rate \in Float] ==
  [quote_data |-> quote_data,
   entry      |-> IF IsNone(quote_data) THEN None
                  ELSE qualify[Val(quote_data),
                               pct_change(Val(quote_data).previous_close,
                                          Val(quote_data).last_price),
                               individual_targets, consensus, haircut_rate]]

\* the iteration evaluated once for each answer of the collaborators (merging
\* with the empty function makes the table an explicit one)
LoopTable ==
  [a \in QuoteResponses \X TargetLists \X ConsensusResults \X HaircutRates |->
     process_quote[get_quote(a[1]), a[2], a[3], a[4]]] @@ <<>>

(***************************************************************************)
(* format_discord_message (bot.py lines 395-453): the header line and one  *)
(* line per entry.  A number printed with d decimals is held as the        *)
(* integer its digits spell (13.12 as 1312); "N/A" is None.  The header's  *)
(* clock time is left out.                                                 *)
(***************************************************************************)
\* f"{haircut_rate*100:.1f}"
haircut_pct[haircut_rate \in Float] == FFixed[FMul[haircut_rate, FromInt[100]], 1]

\* one line of the message for an entry (lines 423-450), without the symbol
format_line[data \in SymbolData, haircut_rate \in Float] ==
  [pct_change  |-> FFixed[data.pct_change, 1],
   last        |-> FFixed[data.last_price, 2],
   prev        |-> FFixed[data.previous_close, 2],
   haircut     |-> haircut_pct[haircut_rate],
   anchor_str  |-> IF FGt(data.anchor, FZero) THEN Some(FFixed[data.anchor, 2]) ELSE None,
   target_info |-> <<data.target_count, data.anchor_type>>]

\* an entry without its symbol
line_fields(e) ==
  [pct_change |-> e.pct_change, last_price |-> e.last_price,
   previous_close |-> e.previous_close, anchor |-> e.anchor,
   target_count |-> e.target_count, anchor_type |-> e.anchor_type]

\* the lines evaluated once for each entry an iteration can append
LineTable ==
  [k \in {<<Val(LoopTable[a].entry), a[4]>> :
            a \in {x \in DOMAIN LoopTable : ~IsNone(LoopTable[x].entry)}} |->
     format_line[k[1], k[2]]] @@ <<>>

format_header == [symbol |-> "ALERT", pct_change |-> FFixed[ALERT_THRESHOLD_PCT, 1],
                  last |-> 0, prev |-> 0, haircut |-> 0, anchor_str |-> None,
                  target_info |-> <<0, "header">>]

\* a variant that lists the entries last to first
format_discord_message_reversed(qualifying_symbols, haircut_rate) ==
  <<format_header>>
  \o [i \in 1..Len(qualifying_symbols) |->
        LET e == qualifying_symbols[Len(qualifying_symbols) + 1 - i]
        IN  [symbol |-> e.symbol] @@ LineTable[<<line_fields(e), haircut_rate>>]]

\* a variant that leaves out the last entry
format_discord_message_short(qualifying_symbols, haircut_rate) ==
  <<format_header>>
  \o [i \in 1..(Len(qualifying_symbols) - 1) |->
        [symbol |-> qualifying_symbols[i].symbol]
        @@ LineTable[<<line_fields(qualifying_symbols[i]), haircut_rate>>]]

format_discord_message(qualifying_symbols, haircut_rate) ==
  <<format_header>>
  \o [i \in 1..Len(qualifying_symbols) |->
        [symbol |-> qualifying_symbols[i].symbol]
        @@ LineTable[<<line_fields(qualifying_symbols[i]), haircut_rate>>]]

(***************************************************************************)
(* The publish call (bot.py lines 596-665): the HTTP status answered with  *)
(* a JSON object, a 200 whose body does not parse as one, a timeout, or    *)
(* another request exception.                                              *)
(***************************************************************************)
PostResponses ==
  {[kind |-> "status", code |-> c] : c \in {200, 401, 500}}
  \cup {[kind |-> "bad_body", code |-> 200],
        [kind |-> "timeout", code |-> 0],
        [kind |-> "request_exception", code |-> 0]}

\* a variant that reports success whatever the publisher answered
post_exit_code_zero(resp) == 0

\* the value returned by the try block of lines 596-665
post_exit_code(resp) ==
  IF resp.kind = "status" /\ resp.code = 200 THEN 0 ELSE 1

(***************************************************************************)
(* State.                                                                  *)
(*   gist           the ledger persisted in the Gist                       *)
(*   required_vars  for each required setting, whether it is non-empty     *)
(*   HAIRCUT_RATE   the configured haircut                                 *)
(*   run            per process, the locals of main() and what the run has *)
(*                  called and returned                                    *)
(*   anchor_call    one call of calculate_anchor: arguments and result     *)
(***************************************************************************)
VARIABLES gist, required_vars, HAIRCUT_RATE, run, anchor_call

vars == <<gist, required_vars, HAIRCUT_RATE, run, anchor_call>>

Procs == {"p1"}

IdleRun ==
  [pc                 |-> "idle",
   pt_now             |-> None,
   state              |-> EmptyDict,
   alerted_today      |-> {},
   symbols            |-> <<>>,
   idx                |-> 0,
   quote_data         |-> None,
   checked_count      |-> 0,
   qualifying_symbols |-> <<>>,
   new_alerts         |-> <<>>,
   save_ok            |-> None,
   message            |-> <<>>,
   response           |-> None,
   calls              |-> {},
   saves              |-> 0,
   posts              |-> 0,
   outcome            |-> "none",
   exit               |-> None]

NoCall == [targets |-> <<>>, consensus_fallback |-> None,
           haircut_rate |-> FZero, result |-> None]

InitialGists ==
  {EmptyDict, DictSet(EmptyDict, Yesterday, <<"AAPL">>)}

Init ==
  /\ gist \in InitialGists
  /\ required_vars \in [RequiredVars -> BOOLEAN]
  /\ HAIRCUT_RATE \in HaircutRates
  /\ run = [p \in Procs |-> IdleRun]
  /\ anchor_call = NoCall

Active(p) == run[p].pc \notin {"idle", "done"}

Finish(r, code, what) == [r EXCEPT !.pc = "done", !.exit = Some(code), !.outcome = what]

\* the external trigger starts a process at some Pacific time, which is what
\* datetime.now(PT_TIMEZONE) reads during the run; runs do not overlap
Start(p) ==
  /\ run[p].pc = "idle"
  /\ \A q \in DOMAIN run : ~Active(q)
  /\ \E now \in ClockReadings :
       run' = [run EXCEPT ![p].pc = "config", ![p].pt_now = Some(now)]
  /\ UNCHANGED <<gist, required_vars, HAIRCUT_RATE, anchor_call>>

\* a variant that does not require GH_PAT
missing_vars_but_one(present) == {v \in RequiredVars \ {"GH_PAT"} : ~present[v]}

\* main, lines 477-485: the required settings that are empty
missing_vars(present) == {v \in RequiredVars : ~present[v]}

\* main, lines 477-493
ValidateConfig(p) ==
  /\ run[p].pc = "config"
  /\ IF missing_vars(required_vars) # {}
     THEN run' = [run EXCEPT ![p] = Finish(@, 1, "missing_config")]
     ELSE run' = [run EXCEPT ![p].pc = "window"]
  /\ UNCHANGED <<gist, required_vars, HAIRCUT_RATE, anchor_call>>

\* check_time_window, lines 384-392, and main, lines 495-498; the time is
\* not looked at again once the window check has passed
CheckTimeWindow(p) ==
  /\ run[p].pc = "window"
  /\ IF ~check_time_window(Val(run[p].pt_now))
     THEN run' = [run EXCEPT ![p] = Finish(@, 0, "outside_window")]
     ELSE run' = [run EXCEPT ![p].pc = "load", ![p].pt_now = None]
  /\ UNCHANGED <<gist, required_vars, HAIRCUT_RATE, anchor_call>>

\* main, lines 500-511
LoadState(p) ==
  /\ run[p].pc = "load"
  /\ \E ok \in BOOLEAN :
       LET state == get_state(ok, gist)
       IN  run' = [run EXCEPT ![p].pc = "movers",
                              ![p].state = state,
                              ![p].alerted_today = alerted(state, Today),
                              ![p].calls = @ \cup {"get_state"}]
  /\ UNCHANGED <<gist, required_vars, HAIRCUT_RATE, anchor_call>>

\* main, lines 513-525
GetMarketMovers(p) ==
  /\ run[p].pc = "movers"
  /\ \E resp \in MoverResponses :
       LET symbols == get_market_movers(resp)
           called  == [run[p] EXCEPT !.symbols = symbols,
                                     !.calls = @ \cup {"get_market_movers"}]
       IN  IF symbols = <<>>
           THEN run' = [run EXCEPT ![p] = Finish(called, 0, "no_candidates")]
           ELSE run' = [run EXCEPT ![p] = [called EXCEPT !.pc = "loop"]]
  /\ UNCHANGED <<gist, required_vars, HAIRCUT_RATE, anchor_call>>

\* a variant that never skips a symbol
already_alerted_never(symbol, alerted_today) == FALSE

\* main, line 529: if symbol in alerted_today
already_alerted(symbol, alerted_today) == symbol \in alerted_today

\* a variant that records every symbol whose quote was looked up
Iterate_recording_all(p, r, symbol, individual_targets, it) ==
  LET fetched == [r EXCEPT !.idx = @ + 1,
                           !.quote_data = it.quote_data,
                           !.checked_count = @ + (IF IsNone(it.quote_data) THEN 0 ELSE 1),
                           !.new_alerts = Append(@, symbol),
                           !.calls = @ \cup {"get_quote"}]
  IN  IF IsNone(it.entry) THEN run' = [run EXCEPT ![p] = fetched]
      ELSE run' = [run EXCEPT ![p] =
             [fetched EXCEPT
                !.qualifying_symbols = Append(@, [symbol |-> symbol] @@ Val(it.entry)),
                !.calls = @ \cup {"get_individual_targets"}
                            \cup (IF Len(individual_targets) < 3
                                  THEN {"get_consensus_target"} ELSE {})]]

\* a variant in which a failed quote lookup ends the run
Iterate_aborting(p, r, symbol, individual_targets, it) ==
  IF IsNone(it.quote_data)
  THEN run' = [run EXCEPT ![p] =
                 Finish([r EXCEPT !.calls = @ \cup {"get_quote"}], 1, "failed")]
  ELSE run' = [run EXCEPT ![p] =
                 [r EXCEPT !.idx = @ + 1,
                           !.quote_data = it.quote_data,
                           !.checked_count = @ + 1,
                           !.calls = @ \cup {"get_quote"}]]

\* one iteration of the loop, main, lines 527-570
Iterate(p, r, symbol, individual_targets, it) ==
  LET fetched == [r EXCEPT !.idx = @ + 1,
                           !.quote_data = it.quote_data,
                           !.checked_count = @ + (IF IsNone(it.quote_data) THEN 0 ELSE 1),
                           !.calls = @ \cup {"get_quote"}]
  IN  IF IsNone(it.entry) THEN run' = [run EXCEPT ![p] = fetched]
      ELSE run' = [run EXCEPT ![p] =
             [fetched EXCEPT
                !.qualifying_symbols = Append(@, [symbol |-> symbol] @@ Val(it.entry)),
                !.new_alerts = Append(@, symbol),
                !.calls = @ \cup {"get_individual_targets"}
                            \cup (IF Len(individual_targets) < 3
                                  THEN {"get_consensus_target"} ELSE {})]]

ProcessSymbol(p) ==
  /\ run[p].pc = "loop"
  /\ run[p].idx < Len(run[p].symbols)
  /\ IF already_alerted(run[p].symbols[run[p].idx + 1], run[p].alerted_today)
     THEN run' = [run EXCEPT ![p].idx = @ + 1]
     ELSE \E resp \in QuoteResponses, individual_targets \in TargetLists,
             consensus \in ConsensusResults :
            Iterate(p, run[p], run[p].symbols[run[p].idx + 1], individual_targets,
                    LoopTable[<<resp, individual_targets, consensus, HAIRCUT_RATE>>])
  /\ UNCHANGED <<gist, required_vars, HAIRCUT_RATE, anchor_call>>

\* a variant that saves the unchanged ledger before returning
NoQualifiers_saving(p) ==
  /\ run[p].pc = "loop"
  /\ run[p].idx = Len(run[p].symbols)
  /\ run[p].qualifying_symbols = <<>>
  /\ run' = [run EXCEPT ![p] = Finish([@ EXCEPT !.calls = @ \cup {"update_state"},
                                                 !.saves = @ + 1],
                                      0, "no_qualifiers")]
  /\ UNCHANGED <<gist, required_vars, HAIRCUT_RATE, anchor_call>>

\* main, lines 572-579
NoQualifiers(p) ==
  /\ run[p].pc = "loop"
  /\ run[p].idx = Len(run[p].symbols)
  /\ run[p].qualifying_symbols = <<>>
  /\ run' = [run EXCEPT ![p] = Finish(@, 0, "no_qualifiers")]
  /\ UNCHANGED <<gist, required_vars, HAIRCUT_RATE, anchor_call>>

SaveResults == {"saved", "failed"}

\* GistStateManager.update_state (lines 98-129): True when the GET and the
\* PATCH succeed, and the Gist then holds the new content; False otherwise
update_state_returns(res) == res = "saved"
\* a variant in which the Gist keeps what it holds and adds what is new
update_state_content_merging(res, state, content) ==
  IF res = "saved"
  THEN [keys |-> content.keys \cup state.keys,
        at   |-> [d \in Dates |->
                    content.at[d]
                    \o SelectSeq(state.at[d], LAMBDA s : s \notin SeqToSet(content.at[d]))]]
  ELSE content

\* a variant in which a save reported as done leaves the Gist as it was
update_state_content_dropping(res, state, content) == content

update_state_content(res, state, content) ==
  IF res = "saved" THEN state ELSE content

\* a variant that replaces the list of the date
record_replacing(state, today_str, new_alerts) == DictSet(state, today_str, new_alerts)

\* main, lines 586-589: state[today_str].extend(new_alerts), on a new list
\* when the date is not in state
record(state, today_str, new_alerts) ==
  DictSet(state, today_str, DictGet(state, today_str) \o new_alerts)

\* a variant that saves as soon as a symbol qualifies
UpdateState_early(p) ==
  LET r == run[p] IN
  /\ r.pc = "loop"
  /\ r.qualifying_symbols # <<>>
  /\ \E res \in SaveResults :
       LET state == record(r.state, Today, r.new_alerts)
       IN  /\ gist' = update_state_content(res, state, gist)
           /\ run' = [run EXCEPT ![p].pc = "post",
                                 ![p].state = state,
                                 ![p].save_ok = Some(update_state_returns(res)),
                                 ![p].calls = @ \cup {"update_state"},
                                 ![p].saves = @ + 1]
  /\ UNCHANGED <<required_vars, HAIRCUT_RATE, anchor_call>>

\* main, lines 586-591
UpdateState(p) ==
  LET r == run[p] IN
  /\ r.pc = "loop"
  /\ r.idx = Len(r.symbols)
  /\ r.qualifying_symbols # <<>>
  /\ \E res \in SaveResults :
       LET state == record(r.state, Today, r.new_alerts)
       IN  /\ gist' = update_state_content(res, state, gist)
           /\ run' = [run EXCEPT ![p].pc = "post",
                                 ![p].state = state,
                                 ![p].save_ok = Some(update_state_returns(res)),
                                 ![p].calls = @ \cup {"update_state"},
                                 ![p].saves = @ + 1]
  /\ UNCHANGED <<required_vars, HAIRCUT_RATE, anchor_call>>

\* main, lines 593-665
PostToDiscord(p) ==
  LET r == run[p]
      message == format_discord_message(r.qualifying_symbols, HAIRCUT_RATE)
  IN
  /\ r.pc = "post"
  /\ \E resp \in PostResponses :
       LET code   == post_exit_code(resp)
           posted == [r EXCEPT !.message = message,
                               !.response = Some(resp),
                               !.calls = @ \cup {"post"},
                               !.posts = @ + 1]
       IN  run' = [run EXCEPT ![p] =
                     Finish(posted, code, IF code = 0 THEN "published" ELSE "failed")]
  /\ UNCHANGED <<gist, required_vars, HAIRCUT_RATE, anchor_call>>

\* exit(main()), line 678: the process ends and its locals are gone
Exit(p) ==
  /\ run[p].pc = "done"
  /\ run' = [run EXCEPT ![p] = IdleRun]
  /\ UNCHANGED <<gist, required_vars, HAIRCUT_RATE, anchor_call>>

Next ==
  \E p \in Procs :
    \/ Start(p)
    \/ ValidateConfig(p)
    \/ CheckTimeWindow(p)
    \/ LoadState(p)
    \/ GetMarketMovers(p)
    \/ ProcessSymbol(p)
    \/ NoQualifiers(p)
    \/ UpdateState(p)
    \/ PostToDiscord(p)
    \/ Exit(p)

Spec == Init /\ [][Next]_vars
(***************************************************************************)
(* calculate_anchor on its own: one call with arguments drawn from bounded *)
(* sets, the documented examples among them.                               *)
(***************************************************************************)
MaxTargets == 4

TargetValues == {FromInt[10], FromInt[12], FromInt[15], FromInt[18], FromInt[20]}

ExampleTargets ==
  <<FromInt[10], FromInt[12], FromInt[15], FromInt[18], FromInt[20]>>

AnchorTargets == BSeq(TargetValues, MaxTargets) \cup {ExampleTargets}

AnchorHaircuts == {FZero, DefaultHaircut, FromInt[1]}

InitAnchor ==
  /\ gist = EmptyDict
  /\ required_vars = [v \in RequiredVars |-> TRUE]
  /\ HAIRCUT_RATE = DefaultHaircut
  /\ run = [p \in Procs |-> IdleRun]
  /\ anchor_call \in [targets            : AnchorTargets,
                      consensus_fallback : ConsensusResults,
                      haircut_rate       : AnchorHaircuts,
                      result             : {None}]

CallCalculateAnchor ==
  /\ IsNone(anchor_call.result)
  /\ anchor_call' =
       [anchor_call EXCEPT !.result =
          Some(calculate_anchor(anchor_call.targets, anchor_call.consensus_fallback,
                                anchor_call.haircut_rate))]
  /\ UNCHANGED <<gist, required_vars, HAIRCUT_RATE, run>>

NextAnchor == CallCalculateAnchor

SpecAnchor == InitAnchor /\ [][NextAnchor]_vars

(***************************************************************************)
(* Properties of the pipeline (specification Spec).                        *)
(***************************************************************************)
Done(p) == run[p].pc = "done"

QualifyingNames(p) ==
  {run[p].qualifying_symbols[i].symbol : i \in 1..Len(run[p].qualifying_symbols)}

MessageNames(p) ==
  {run[p].message[i].symbol : i \in 2..Len(run[p].message)}

\* C1: a symbol in the loaded ledger's set for today is never in the run's
\* qualifying list nor in the message it publishes.
C1_AlertedNeverQualifies ==
  \A p \in Procs :
    /\ QualifyingNames(p) \cap run[p].alerted_today = {}
    /\ MessageNames(p) \cap run[p].alerted_today = {}

\* a run published one candidate after passing over another, alerted today
C1_Witness ==
  \E p \in Procs :
    /\ Done(p)
    /\ run[p].symbols = <<"AAPL", "MSFT">>
    /\ run[p].alerted_today = {"AAPL"}
    /\ QualifyingNames(p) = {"MSFT"}
    /\ MessageNames(p) = {"MSFT"}

\* the step of p is an iteration that looked up the quote of a symbol not
\* alerted today and got one
QuoteFetched(p) ==
  /\ run[p].pc = "loop"
  /\ run'[p].pc = "loop"
  /\ run'[p].idx = run[p].idx + 1
  /\ run[p].symbols[run'[p].idx] \notin run[p].alerted_today
  /\ ~IsNone(run'[p].quote_data)

\* the step of p appends the symbol it looked at to the qualifying list
Appended(p) ==
  /\ Len(run'[p].qualifying_symbols) = Len(run[p].qualifying_symbols) + 1
  /\ run'[p].qualifying_symbols[Len(run'[p].qualifying_symbols)].symbol
       = run[p].symbols[run'[p].idx]

BoundaryQuote == [previous_close |-> FromDec[100, 2], last_price |-> FromDec[190, 2]]
JustBelowQuote == [previous_close |-> FromDec[100, 2], last_price |-> FromDec[189, 2]]

\* C2: a candidate not alerted today whose quote lookup succeeds is appended
\* to the qualifying list if and only if its pct_change is at least the
\* threshold; with threshold 90, previous_close 1.00 and last_price 1.90
\* qualify, and last_price 1.89 does not.
C2_ThresholdInclusive ==
  [][\A p \in Procs :
       QuoteFetched(p) =>
         /\ Appended(p) <=>
              FCmp[pct_change(Val(run'[p].quote_data).previous_close,
                              Val(run'[p].quote_data).last_price),
                   ALERT_THRESHOLD_PCT] >= 0
         /\ Val(run'[p].quote_data) = BoundaryQuote => Appended(p)
         /\ Val(run'[p].quote_data) = JustBelowQuote => ~Appended(p)]_vars

\* C3: the persisted ledger only grows: a symbol in the persisted set of a
\* date is still in it after every later step, whatever the outcome of a
\* run's load and save.
C3_LedgerOnlyGrows ==
  [][\A d \in Dates :
       SeqToSet(DictGet(gist, d)) \subseteq SeqToSet(DictGet(gist', d))]_vars

\* the loop of p is over and its qualifying list is empty
EndsEmpty(p) ==
  /\ run[p].pc = "loop"
  /\ run[p].idx = Len(run[p].symbols)
  /\ run[p].qualifying_symbols = <<>>

\* C4: a run whose qualifying list is empty returns 0 without a save call or
\* a publish call, and the persisted ledger is changed only by a run whose
\* qualifying list is not empty.
C4_EmptyRunIsNoOp ==
  [][\A p \in Procs :
       /\ EndsEmpty(p) =>
            /\ run'[p].pc = "done"
            /\ run'[p].exit = Some(0)
            /\ run'[p].calls \cap {"update_state", "post"} = {}
            /\ run'[p].saves = 0
            /\ run'[p].posts = 0
            /\ gist' = gist
       /\ gist' # gist => run[p].qualifying_symbols # <<>>]_vars

\* a run over two candidates found nothing to report and left a ledger that
\* holds an entry as it was
C4_Witness ==
  \E p \in Procs :
    /\ Done(p)
    /\ Len(run[p].symbols) = 2
    /\ run[p].idx = 2
    /\ run[p].qualifying_symbols = <<>>
    /\ "get_quote" \in run[p].calls
    /\ run[p].exit = Some(0)
    /\ gist.keys # {}

PublishedOk == [kind |-> "status", code |-> 200]

\* C5: a run with a non-empty qualifying list goes on to the publish call
\* after the save, whatever the save returned; the message has one line per
\* qualifying symbol, in order, and the exit code depends on the publisher's
\* answer alone.
C5_PublishDespiteSave ==
  \A p \in Procs :
    /\ run[p].pc = "post" =>
         /\ run[p].qualifying_symbols # <<>>
         /\ run[p].save_ok \in {Some(TRUE), Some(FALSE)}
         /\ ENABLED PostToDiscord(p)
    /\ Done(p) /\ run[p].qualifying_symbols # <<>> =>
         /\ run[p].save_ok \in {Some(TRUE), Some(FALSE)}
         /\ "post" \in run[p].calls
         /\ run[p].posts = 1
         /\ Len(run[p].message) = Len(run[p].qualifying_symbols) + 1
         /\ \A i \in 1..Len(run[p].qualifying_symbols) :
              run[p].message[i + 1].symbol = run[p].qualifying_symbols[i].symbol
         /\ run[p].exit = Some(IF run[p].response = Some(PublishedOk) THEN 0 ELSE 1)

\* the save failed and both qualifying symbols were published all the same
C5_Witness ==
  \E p \in Procs :
    /\ Done(p)
    /\ run[p].save_ok = Some(FALSE)
    /\ Len(run[p].qualifying_symbols) = 2
    /\ Len(run[p].message) = 3
    /\ run[p].exit = Some(0)

\* the reading of the Pacific clock is outside the trading window
Outside(now) == now.weekday \in {5, 6} \/ now.hour < 10 \/ now.hour >= 15

AllPresent == \A v \in RequiredVars : required_vars[v]

EndedOutsideWindow(p) ==
  AllPresent /\ ~IsNone(run[p].pt_now) /\ Outside(Val(run[p].pt_now))

EndedWithoutCandidates(p) ==
  "get_market_movers" \in run[p].calls /\ run[p].symbols = <<>>

EndedWithoutQualifiers(p) ==
  /\ "get_market_movers" \in run[p].calls
  /\ run[p].symbols # <<>>
  /\ run[p].idx = Len(run[p].symbols)
  /\ run[p].qualifying_symbols = <<>>

Answered200(p) == ~IsNone(run[p].response) /\ Val(run[p].response).code = 200

\* C6 as stated: a run returns 0 if and only if it ended outside the window,
\* without candidates, without qualifying symbols, or with a publish call
\* answered with status 200; a failed publish and missing configuration
\* return non-zero.
C6_ExitCodeAsStated ==
  \A p \in Procs :
    Done(p) =>
      /\ run[p].exit \in {Some(0), Some(1)}
      /\ run[p].exit = Some(0) <=>
           \/ EndedOutsideWindow(p)
           \/ EndedWithoutCandidates(p)
           \/ EndedWithoutQualifiers(p)
           \/ Answered200(p)

\* C6, amended: the publish call counts as answered only when the status is
\* 200 and the body parses as the JSON object the code reads the id from.
C6_ExitCode ==
  \A p \in Procs :
    Done(p) =>
      /\ run[p].exit \in {Some(0), Some(1)}
      /\ run[p].exit = Some(0) <=>
           \/ EndedOutsideWindow(p)
           \/ EndedWithoutCandidates(p)
           \/ EndedWithoutQualifiers(p)
           \/ run[p].response = Some(PublishedOk)
      /\ ~AllPresent => run[p].exit = Some(1)
      /\ ~IsNone(run[p].response) /\ run[p].response # Some(PublishedOk) =>
           run[p].exit = Some(1)

\* the publisher answered 200 with a body that is not the JSON expected
C6_Witness ==
  \E p \in Procs :
    /\ Done(p)
    /\ run[p].response = Some([kind |-> "bad_body", code |-> 200])
    /\ run[p].exit = Some(1)

\* the step of p belongs to a run started outside the trading window
StartedOutside(p) ==
  Active(p) /\ ~IsNone(run[p].pt_now) /\ Outside(Val(run[p].pt_now))

\* the step of p ends the run with exit code 0, or leaves it before the
\* window check, and no collaborator has been called
EndsSilently(p) ==
  /\ run'[p].calls = {}
  /\ run'[p].pc \in {"window", "done"}
  /\ run'[p].pc = "done" => run'[p].exit = Some(0)

\* C7 as stated: every run started outside the trading window ends with exit
\* code 0 and without a collaborator call.
C7_OutsideWindowAsStated ==
  [][\A p \in Procs : StartedOutside(p) => EndsSilently(p)]_vars

\* C7, amended: every run started outside the trading window with all six
\* required settings present ends with exit code 0 and without a
\* collaborator call.
C7_OutsideWindow ==
  [][\A p \in Procs : StartedOutside(p) /\ AllPresent => EndsSilently(p)]_vars

\* a run on a weekday at 15h ended at the window check
C7_Witness ==
  \E p \in Procs :
    /\ Done(p)
    /\ AllPresent
    /\ run[p].pt_now = Some([weekday |-> 2, hour |-> 15])
    /\ run[p].exit = Some(0)
    /\ run[p].calls = {}

\* C8: when any of the six required settings is empty, the run returns a
\* non-zero exit code and no collaborator has been called.
C8_MissingConfig ==
  \A p \in Procs :
    /\ ~AllPresent => run[p].pc \in {"idle", "config", "done"} /\ run[p].calls = {}
    /\ ~AllPresent /\ Done(p) => run[p].exit = Some(1)

\* a run inside the trading window ended for want of GH_PAT alone
C8_Witness ==
  \E p \in Procs :
    /\ Done(p)
    /\ {v \in RequiredVars : ~required_vars[v]} = {"GH_PAT"}
    /\ run[p].pt_now = Some([weekday |-> 0, hour |-> 10])
    /\ run[p].exit = Some(1)
    /\ run[p].calls = {}

(***************************************************************************)
(* Properties of calculate_anchor (specification SpecAnchor).              *)
(***************************************************************************)
Occurrences(s, v) == Cardinality({i \in 1..Len(s) : s[i] = v})

Least(S) == CHOOSE v \in S : \A w \in S : FCmp[v, w] <= 0

Greatest(S) == CHOOSE v \in S : \A w \in S : FCmp[v, w] >= 0

\* how often v is left in s once one least and one greatest value are removed
Kept(s, v) ==
  Occurrences(s, v)
  - (IF v = Least(SeqToSet(s)) THEN 1 ELSE 0)
  - (IF v = Greatest(SeqToSet(s)) THEN 1 ELSE 0)

\* acc + v + ... + v, with k summands v
AddTimes[acc \in Float, v \in Float, k \in Nat] ==
  IF k = 0 THEN acc ELSE AddTimes[FAdd[acc, v], v, k - 1]

\* the kept values of s that lie in S, added in ascending order to acc
KeptSum[acc \in Float, S \in SUBSET Float, s \in Seq(Float)] ==
  IF S = {} THEN acc
  ELSE KeptSum[AddTimes[acc, Least(S), Kept(s, Least(S))], S \ {Least(S)}, s]

\* the Anchor the contract prescribes for the arguments
ExpectedAnchor(targets, consensus, haircut_rate) ==
  IF Len(targets) >= 3 THEN
    [value  |-> FMul[FDiv[KeptSum[FZero, SeqToSet(targets), targets],
                          FromInt[Len(targets) - 2]],
                     FSub[FromInt[1], haircut_rate]],
     method |-> "trimmed"]
  ELSE IF consensus # None THEN
    [value |-> FMul[Val(consensus), FSub[FromInt[1], haircut_rate]], method |-> "fallback"]
  ELSE [value |-> FZero, method |-> "none"]

Returned == ~IsNone(anchor_call.result)

\* C9: calculate_anchor returns, for 3 targets or more, method trimmed and the
\* mean of the targets without one minimum and one maximum times
\* (1 - haircut_rate); otherwise, with a consensus, method fallback and the
\* consensus times (1 - haircut_rate); otherwise value 0 and method none.
\* ([10,12,15,18,20], none, 0.125) gives 13.125 trimmed, ([10,12], 15, 0.125)
\* gives 13.125 fallback and ([], none, any) gives 0 none.
C9_AnchorDefinition ==
  Returned =>
    /\ Val(anchor_call.result)
         = ExpectedAnchor(anchor_call.targets, anchor_call.consensus_fallback,
                          anchor_call.haircut_rate)
    /\ /\ anchor_call.targets = ExampleTargets
       /\ anchor_call.consensus_fallback = None
       /\ anchor_call.haircut_rate = FromDec[125, 3]
       => Val(anchor_call.result) = [value |-> FromDec[13125, 3], method |-> "trimmed"]
    /\ /\ anchor_call.targets = <<FromInt[10], FromInt[12]>>
       /\ anchor_call.consensus_fallback = Some(FromInt[15])
       /\ anchor_call.haircut_rate = FromDec[125, 3]
       => Val(anchor_call.result) = [value |-> FromDec[13125, 3], method |-> "fallback"]
    /\ anchor_call.targets = <<>> /\ anchor_call.consensus_fallback = None
       => Val(anchor_call.result) = [value |-> FZero, method |-> "none"]

\* the call on four targets with the minimum and the maximum both twice
C9_Witness ==
  /\ Returned
  /\ anchor_call.targets = <<FromInt[20], FromInt[10], FromInt[20], FromInt[10]>>
  /\ anchor_call.haircut_rate = FromDec[125, 3]
  /\ Val(anchor_call.result) = [value |-> FromDec[13125, 3], method |-> "trimmed"]

\* C10: for positive targets, an absent or positive consensus and a haircut
\* rate in [0, 1], 1 included, the returned value is 0 if and only if the
\* method is none.
C10_ZeroIffNone ==
  /\ Returned
  /\ \A i \in 1..Len(anchor_call.targets) : FGt(anchor_call.targets[i], FZero)
  /\ anchor_call.consensus_fallback # None => FGt(Val(anchor_call.consensus_fallback), FZero)
  /\ FCmp[anchor_call.haircut_rate, FZero] >= 0
  /\ FCmp[anchor_call.haircut_rate, FromInt[1]] <= 0
  => (Val(anchor_call.result).value = FZero <=> Val(anchor_call.result).method = "none")

(***************************************************************************)
(* Further properties of the pipeline (specification Spec).                *)
(***************************************************************************)
\* C11: recording a symbol for a date twice, in one run or in two runs,
\* leaves the same already-alerted set as recording it once, which is the
\* set before with the symbol added.
C11_RecordIdempotent ==
  \A s \in Symbols, d \in Dates :
    /\ alerted(record(gist, d, <<s>>), d) = alerted(gist, d) \cup {s}
    /\ alerted(record(record(gist, d, <<s>>), d, <<s>>), d)
         = alerted(record(gist, d, <<s>>), d)
    /\ alerted(record(gist, d, <<s, s>>), d) = alerted(record(gist, d, <<s>>), d)

\* the ledger holds a symbol recorded twice for today beside an earlier date
C11_Witness ==
  /\ DictGet(gist, Today) = <<"MSFT", "MSFT">>
  /\ alerted(gist, Today) = {"MSFT"}
  /\ Yesterday \in gist.keys

\* the step of p is an iteration of the loop
LoopStep(p) ==
  /\ run[p].pc = "loop"
  /\ run[p].idx < Len(run[p].symbols)
  /\ run'[p] # run[p]

\* the step of p looked up the quote of a symbol not alerted today, in vain
QuoteFailed(p) ==
  /\ run[p].symbols[run[p].idx + 1] \notin run[p].alerted_today
  /\ IsNone(run'[p].quote_data)

\* C12: an iteration never ends the loop or the run and leaves the entries
\* of earlier candidates as they are; a failed lookup adds nothing, and a
\* candidate whose lookup succeeds qualifies by its own quote alone,
\* whatever the lookups of the other candidates gave.
C12_FaultIsolation ==
  [][\A p \in Procs :
       LoopStep(p) =>
         /\ run'[p].pc = "loop"
         /\ run'[p].idx = run[p].idx + 1
         /\ run'[p].exit = None
         /\ Len(run'[p].qualifying_symbols) >= Len(run[p].qualifying_symbols)
         /\ SubSeq(run'[p].qualifying_symbols, 1, Len(run[p].qualifying_symbols))
              = run[p].qualifying_symbols
         /\ QuoteFailed(p) => run'[p].qualifying_symbols = run[p].qualifying_symbols
         /\ QuoteFetched(p) =>
              (Appended(p) <=>
                 ~FLt(pct_change(Val(run'[p].quote_data).previous_close,
                                 Val(run'[p].quote_data).last_price),
                      ALERT_THRESHOLD_PCT))]_vars

\* the lookup for the first of two candidates failed, and the second one was
\* evaluated and published
C12_Witness ==
  \E p \in Procs :
    /\ Done(p)
    /\ run[p].symbols = <<"AAPL", "MSFT">>
    /\ run[p].alerted_today = {}
    /\ run[p].checked_count = 1
    /\ QualifyingNames(p) = {"MSFT"}
    /\ MessageNames(p) = {"MSFT"}
    /\ run[p].exit = Some(0)

\* the run of p has formatted its message
Formatted(p) == run[p].posts > 0

\* C13: the message is the header followed by one line per qualifying
\* entry: 1 + len(qualifying_symbols) lines, the line after the i-th being
\* the line of the i-th entry, in the order of the list.
C13_OneLinePerEntry ==
  \A p \in Procs :
    Formatted(p) =>
      LET q == run[p].qualifying_symbols
          m == run[p].message
      IN  /\ Len(m) = 1 + Len(q)
          /\ m[1] = format_header
          /\ \A i \in 1..Len(q) :
               m[i + 1] = [symbol |-> q[i].symbol]
                          @@ LineTable[<<line_fields(q[i]), HAIRCUT_RATE>>]

\* a message of three lines that names MSFT before AAPL, as the candidates
\* came, with different changes on the two lines
C13_Witness ==
  \E p \in Procs :
    /\ Formatted(p)
    /\ Len(run[p].message) = 3
    /\ run[p].message[2].symbol = "MSFT"
    /\ run[p].message[3].symbol = "AAPL"
    /\ run[p].message[2].pct_change # run[p].message[3].pct_change

\* the run of p has recorded its new alerts in its copy of the ledger
Recorded(p) == "update_state" \in run[p].calls

\* C14: once a run has recorded, today's entry of its ledger holds the
\* symbols loaded for today and the qualifying symbols, no others; the new
\* alerts are the qualifying symbols in their order; and a save that
\* succeeded left that membership in the gist.
C14_RecordsExactlyQualifiers ==
  \A p \in Procs :
    Recorded(p) =>
      /\ run[p].qualifying_symbols # <<>>
      /\ run[p].new_alerts
           = [i \in 1..Len(run[p].qualifying_symbols) |-> run[p].qualifying_symbols[i].symbol]
      /\ alerted(run[p].state, Today) = run[p].alerted_today \cup QualifyingNames(p)
      /\ run[p].save_ok = Some(TRUE) =>
           alerted(gist, Today) = run[p].alerted_today \cup QualifyingNames(p)

\* a run that loaded AAPL for today, skipped it and qualified MSFT, has saved
\* an entry that holds each of them once
C14_Witness ==
  \E p \in Procs :
    /\ Recorded(p)
    /\ run[p].symbols = <<"AAPL", "MSFT">>
    /\ run[p].alerted_today = {"AAPL"}
    /\ QualifyingNames(p) = {"MSFT"}
    /\ run[p].save_ok = Some(TRUE)
    /\ DictGet(gist, Today) = <<"AAPL", "MSFT">>

\* C16: a candidate listed twice is taken once: no two entries of the
\* qualifying list, and so no two lines of the message, are for the same
\* symbol.
C16_DuplicateCandidateOnce ==
  \A p \in Procs :
    \A i, j \in 1..Len(run[p].qualifying_symbols) :
      run[p].qualifying_symbols[i].symbol = run[p].qualifying_symbols[j].symbol => i = j

\* the run of p has made a save request
Saved(p) == run[p].saves > 0

\* C17: a run saves the ledger at most once, after the whole candidate
\* loop and before it publishes: nothing is saved while candidates are
\* still evaluated, and a run that published had saved, once, before.
C17_SaveOnceBetweenLoopAndPublish ==
  \A p \in Procs :
    /\ run[p].saves <= 1
    /\ Saved(p) <=> Recorded(p)
    /\ Saved(p) => /\ run[p].idx = Len(run[p].symbols)
                   /\ run[p].pc \in {"post", "done"}
    /\ run[p].posts > 0 => run[p].saves = 1 /\ run[p].pc = "done"
    /\ run[p].pc = "post" => run[p].saves = 1 /\ run[p].posts = 0

\* a run evaluated two candidates, saved once, though the save failed, and
\* then published once
C17_Witness ==
  \E p \in Procs :
    /\ Done(p)
    /\ run[p].checked_count = 2
    /\ run[p].saves = 1
    /\ run[p].save_ok = Some(FALSE)
    /\ run[p].posts = 1
    /\ run[p].exit = Some(0)

\* the raw values of previous_close that are no positive number
UnusablePrevs == {Missing, Bad, Dec(0, 2), Dec(-100, 2)}

\* C18: a quote that reaches the percentage computation has both prices
\* and a previous close above zero, and so has every qualifying entry; a
\* response whose previous_close is missing, unparsable, zero or negative
\* gives no quote, and no entry.
C18_QuoteHasPositivePrevClose ==
  /\ \A p \in Procs :
       /\ ~IsNone(run[p].quote_data) =>
            /\ DOMAIN Val(run[p].quote_data) = {"previous_close", "last_price"}
            /\ FGt(Val(run[p].quote_data).previous_close, FZero)
       /\ \A i \in 1..Len(run[p].qualifying_symbols) :
            FGt(run[p].qualifying_symbols[i].previous_close, FZero)
  /\ \A resp \in QuoteResponses :
       (resp.kind = "data" /\ resp.previous_close \in UnusablePrevs) =>
         LET it == LoopTable[<<resp, <<>>, None, HAIRCUT_RATE>>]
         IN  IsNone(it.quote_data) /\ IsNone(it.entry)

\* of two candidates the first was evaluated on its quote and the second,
\* whose lookup returned no quote, was skipped
C18_Witness ==
  \E p \in Procs :
    /\ run[p].pc = "loop"
    /\ run[p].symbols = <<"AAPL", "MSFT">>
    /\ run[p].alerted_today = {}
    /\ run[p].idx = 2
    /\ run[p].checked_count = 1
    /\ IsNone(run[p].quote_data)
    /\ QualifyingNames(p) = {"AAPL"}

\* C19: a line of the message shows N/A for the anchor exactly when the
\* anchor method of its entry is none; a trimmed or fallback entry shows a
\* price.
C19_NotAvailableIffNone ==
  \A p \in Procs :
    Formatted(p) =>
      \A i \in 1..Len(run[p].qualifying_symbols) :
        IsNone(run[p].message[i + 1].anchor_str)
          <=> run[p].qualifying_symbols[i].anchor_type = "none"

(***************************************************************************)
(* Overlapping runs.  Nothing in the program or in the Gist requests       *)
(* (bot.py lines 78-129, 509-511, 586-610) keeps a second process from     *)
(* running while a first one is between its load and its save.  Two        *)
(* processes run the steps of main in any interleaving; the clock reads    *)
(* Monday 10h, the movers response lists at most one symbol and every load *)
(* of the ledger succeeds.                                                 *)
(***************************************************************************)
RaceProcs == {"p1", "p2"}

RaceClock == [weekday |-> 0, hour |-> 10]

InitRace ==
  /\ gist = EmptyDict
  /\ required_vars = [v \in RequiredVars |-> TRUE]
  /\ HAIRCUT_RATE = DefaultHaircut
  /\ run = [p \in RaceProcs |-> IdleRun]
  /\ anchor_call = NoCall

\* the external trigger starts a process whatever the other one is doing
StartOverlapping(p) ==
  /\ run[p].pc = "idle"
  /\ \E now \in ClockReadings :
       run' = [run EXCEPT ![p].pc = "config", ![p].pt_now = Some(now)]
  /\ UNCHANGED <<gist, required_vars, HAIRCUT_RATE, anchor_call>>

\* the part of the environment that is looked at
RaceScope ==
  \A p \in RaceProcs :
    /\ run[p].pt_now \in {None, Some(RaceClock)}
    /\ Len(run[p].symbols) <= 1

NextRace ==
  \E p \in RaceProcs :
    \/ StartOverlapping(p) /\ RaceScope'
    \/ ValidateConfig(p)
    \/ CheckTimeWindow(p)
    \/ LoadState(p) /\ run'[p].state = gist
    \/ GetMarketMovers(p) /\ RaceScope'
    \/ ProcessSymbol(p)
    \/ NoQualifiers(p)
    \/ UpdateState(p)
    \/ PostToDiscord(p)
    \/ Exit(p)

SpecRace == InitRace /\ [][NextRace]_vars

\* the step of p is a save that succeeded
SavedOk(p) ==
  /\ run'[p].saves = run[p].saves + 1
  /\ run'[p].save_ok = Some(TRUE)

\* C15: nothing protects the ledger from overlapping runs: a save that
\* succeeds replaces the whole ledger by the copy the saving run loaded and
\* extended, whatever another run saved in between, so that the later
\* writer's content is what the gist holds.
C15_LastWriterWins ==
  [][\A p \in RaceProcs :
       SavedOk(p) =>
         /\ gist' = run'[p].state
         /\ alerted(gist', Today) = run[p].alerted_today \cup QualifyingNames(p)]_vars

\* two runs that both loaded an empty entry for today have both saved and
\* both published a message with AAPL, and the gist holds AAPL once
C15_Witness ==
  /\ \A p \in RaceProcs :
       /\ Done(p)
       /\ run[p].alerted_today = {}
       /\ run[p].save_ok = Some(TRUE)
       /\ run[p].exit = Some(0)
       /\ MessageNames(p) = {"AAPL"}
  /\ DictGet(gist, Today) = <<"AAPL">>

(***************************************************************************)
(* Runs one after the other on one date.  A process starts only when no    *)
(* other is between its start and its end; a finished run is kept until    *)
(* its process exits, so that two runs of the sequence can be compared.    *)
(* Every load returns the content of the Gist and every save succeeds.     *)
(* The clock reads Monday 10h; a quote lookup fails or gives a previous    *)
(* close of 1.00 with a last price of 1.89 or 19.00; no analyst targets    *)
(* are found; the post is answered 200 or 401.                             *)
(***************************************************************************)
SurgeQuote == [previous_close |-> FromDec[100, 2], last_price |-> FromDec[1900, 2]]

SequentialQuotes == {None, Some(SurgeQuote), Some(JustBelowQuote)}

SequentialResponses == {None, Some(PublishedOk), Some([kind |-> "status", code |-> 401])}

SequentialScope ==
  \A p \in RaceProcs :
    /\ run[p].pt_now \in {None, Some(RaceClock)}
    /\ run[p].quote_data \in SequentialQuotes
    /\ \A i \in 1..Len(run[p].qualifying_symbols) :
         run[p].qualifying_symbols[i].anchor_type = "none"
    /\ run[p].response \in SequentialResponses

NextSequential ==
  \E p \in RaceProcs :
    \/ Start(p) /\ SequentialScope'
    \/ ValidateConfig(p)
    \/ CheckTimeWindow(p)
    \/ LoadState(p) /\ run'[p].state = gist
    \/ GetMarketMovers(p)
    \/ ProcessSymbol(p) /\ SequentialScope'
    \/ NoQualifiers(p)
    \/ UpdateState(p) /\ run'[p].save_ok = Some(TRUE)
    \/ PostToDiscord(p) /\ SequentialScope'
    \/ Exit(p)

SpecSequential == InitRace /\ [][NextSequential]_vars

\* C20: of runs that follow one another on one date, with every load and
\* save succeeding, no two have a symbol in common in their messages.
C20_NoSymbolPublishedTwice ==
  \A p, q \in RaceProcs :
    p # q => MessageNames(p) \cap MessageNames(q) = {}

\* one run published AAPL; a later one, which had AAPL and MSFT as
\* candidates and AAPL in the ledger it loaded, published MSFT alone
C20_Witness ==
  \E p, q \in RaceProcs :
    /\ Done(p) /\ Done(q)
    /\ run[p].alerted_today = {}
    /\ MessageNames(p) = {"AAPL"}
    /\ run[q].alerted_today = {"AAPL"}
    /\ run[q].symbols = <<"AAPL", "MSFT">>
    /\ MessageNames(q) = {"MSFT"}
    /\ alerted(gist, Today) = {"AAPL", "MSFT"}

(***************************************************************************)
(* Runs one after the other on one date, as above, where a load or a save  *)
(* of the ledger may fail: get_state then returns an empty ledger (bot.py  *)
(* lines 94-96) and update_state returns False (lines 127-129).  The clock *)
(* reads Monday 10h; the candidates are distinct symbols; a quote lookup   *)
(* fails or gives a previous close of 1.00 with a last price of 19.00; no  *)
(* analyst targets are found; the post is answered 200 or 401.             *)
(***************************************************************************)
UnreliableQuotes == {None, Some(SurgeQuote)}

UnreliableScope ==
  \A p \in RaceProcs :
    /\ run[p].pt_now \in {None, Some(RaceClock)}
    /\ Cardinality(SeqToSet(run[p].symbols)) = Len(run[p].symbols)
    /\ run[p].quote_data \in UnreliableQuotes
    /\ \A i \in 1..Len(run[p].qualifying_symbols) :
         run[p].qualifying_symbols[i].anchor_type = "none"
    /\ run[p].response \in SequentialResponses

NextUnreliable ==
  \E p \in RaceProcs :
    \/ Start(p) /\ UnreliableScope'
    \/ ValidateConfig(p)
    \/ CheckTimeWindow(p)
    \/ LoadState(p)
    \/ GetMarketMovers(p) /\ UnreliableScope'
    \/ ProcessSymbol(p) /\ UnreliableScope'
    \/ NoQualifiers(p)
    \/ UpdateState(p)
    \/ PostToDiscord(p) /\ UnreliableScope'
    \/ Exit(p)

SpecUnreliable == InitRace /\ [][NextUnreliable]_vars

\* the run of p saved its ledger and then failed to publish
SavedThenFailed(p) ==
  /\ Done(p)
  /\ run[p].save_ok = Some(TRUE)
  /\ run[p].posts = 1
  /\ run[p].exit = Some(1)

\* the run of q, in its loop, holds the ledger as the gist has it
LoadedLedger(q) ==
  /\ run[q].pc = "loop"
  /\ run[q].state = gist

\* C21: after a run saved its ledger and then failed to publish, its
\* qualifying symbols stay in the gist's entry for the date, and a later
\* run that loaded the ledger has them in its already-alerted set, so that
\* it skips them.
C21_SavedSymbolsStaySkipped ==
  \A p, q \in RaceProcs :
    (p # q /\ SavedThenFailed(p) /\ LoadedLedger(q)) =>
      /\ QualifyingNames(p) \subseteq alerted(gist, Today)
      /\ QualifyingNames(p) \subseteq run[q].alerted_today

====
